---- MODULE Spec2Model ----
(***************************************************************************)
(* Model of src/rs/src/main.rs: the linear demonstration program `main`    *)
(* (loops, borrow, closure, vector, stdin parsing, multiplication table,   *)
(* star pattern, counting loop) and the helper `calculate`.                *)
(*                                                                         *)
(* Text is a sequence of one-character strings.  Standard output is the    *)
(* sequence `out` of completed lines plus the unfinished line `cur`.       *)
(* i32 arithmetic keeps its 32-bit width.  Whether an arithmetic overflow  *)
(* panics or wraps depends on the build profile (overflow checks), which   *)
(* the repository does not fix: `overflow_checks` is chosen in Init.       *)
(***************************************************************************)
EXTENDS Integers, Sequences, FiniteSets, TLC

VARIABLES pc, out, cur, num, i, input, status, panic_msg, overflow_checks,
          botton, top, calc

vars == <<pc, out, cur, num, i, input, status, panic_msg, overflow_checks,
          botton, top, calc>>

(***************************************************************************)
(* Bounds of the model (not program constants).                            *)
(***************************************************************************)
\* longest run of whitespace put before / after the text of the stdin line
MaxPad == 2
\* longest exhaustively enumerated text of the stdin line
MaxBodyLen == 2
\* calculate is applied to bounds within ArgSpan of 0, of i32::MAX, of i32::MIN
ArgSpan == 5

(***************************************************************************)
(* i32                                                                     *)
(***************************************************************************)
I32_MAX == 2147483647
I32_MIN == -I32_MAX - 1

\* the result of an i32 operation: a value, or the overflow panic
Val(v) == [ok |-> TRUE, val |-> v]
Overflow == [ok |-> FALSE, val |-> 0]

\* a + b on i32: a panic with overflow checks, two's complement wrap without
AddI32(a, b, checks) ==
    IF b > 0 /\ a > I32_MAX - b
    THEN IF checks THEN Overflow ELSE Val((a - I32_MAX - 1) + (b - I32_MAX - 1))
    ELSE IF b < 0 /\ a < I32_MIN - b
    THEN IF checks THEN Overflow ELSE Val((a + I32_MAX + 1) + (b + I32_MAX + 1))
    ELSE Val(a + b)

\* a * m on i32 for a multiplier m >= 0, by m additions of a: the partial
\* products a*1 .. a*m grow in magnitude, so one of them leaves the i32 range
\* exactly when a*m does, and wrapping addition is addition modulo 2^32
RECURSIVE MulI32(_, _, _)
MulI32(a, m, checks) ==
    IF m = 0 THEN Val(0)
    ELSE LET p == MulI32(a, m - 1, checks)
         IN  IF p.ok THEN AddI32(p.val, a, checks) ELSE p

\* a % b on i32 for b > 0: the remainder has the sign of the dividend
RustRem(a, b) == IF a % b = 0 THEN 0 ELSE IF a >= 0 THEN a % b ELSE (a % b) - b

\* a / b on i32 for b > 0: the quotient is truncated toward zero
RustDiv(a, b) == IF a >= 0 \/ a % b = 0 THEN a \div b ELSE (a \div b) + 1

(***************************************************************************)
(* Text                                                                    *)
(***************************************************************************)
DigitChars == <<"0", "1", "2", "3", "4", "5", "6", "7", "8", "9">>

IsDigit(c) == \E d \in 1..10 : DigitChars[d] = c

\* char::to_digit(10) of a decimal digit
ToDigit(c) == (CHOOSE d \in 1..10 : DigitChars[d] = c) - 1

\* the decimal digits of n >= 0, most significant first
RECURSIVE FmtNat(_)
FmtNat(n) == IF n < 10 THEN <<DigitChars[n + 1]>>
             ELSE Append(FmtNat(n \div 10), DigitChars[(n % 10) + 1])

\* the decimal digits of |n| for n <= 0 (|i32::MIN| is no i32)
RECURSIVE FmtNeg(_)
FmtNeg(n) == IF n > -10 THEN <<DigitChars[1 - n]>>
             ELSE Append(FmtNeg(RustDiv(n, 10)), DigitChars[1 - RustRem(n, 10)])

\* Display of an i32, as "{}" formats it
Fmt(n) == IF n < 0 THEN <<"-">> \o FmtNeg(n) ELSE FmtNat(n)

\* char::is_whitespace, on the whitespace characters of the model
IsWhitespace(c) == c \in {" ", "\t", "\n", "\r"}

RECURSIVE TrimStart(_)
TrimStart(s) == IF s # <<>> /\ IsWhitespace(Head(s)) THEN TrimStart(Tail(s)) ELSE s

RECURSIVE TrimEnd(_)
TrimEnd(s) == IF s # <<>> /\ IsWhitespace(s[Len(s)])
              THEN TrimEnd(SubSeq(s, 1, Len(s) - 1)) ELSE s

\* str::trim
Trim(s) == TrimEnd(TrimStart(s))

(***************************************************************************)
(* str::parse::<i32>                                                       *)
(***************************************************************************)
ParseOk(v) == [ok |-> TRUE, val |-> v, kind |-> "none"]
ParseErr(k) == [ok |-> FALSE, val |-> 0, kind |-> k]

\* the digit loop: result * 10, then + digit (positive) or - digit (negative),
\* both checked; a character that is no digit is reported before the overflow
RECURSIVE ParseDigits(_, _, _)
ParseDigits(digits, result, is_positive) ==
    IF digits = <<>> THEN ParseOk(result)
    ELSE LET c == Head(digits)
             mul == MulI32(result, 10, TRUE)
             ovf == IF is_positive THEN "PosOverflow" ELSE "NegOverflow"
         IN  IF ~IsDigit(c) THEN ParseErr("InvalidDigit")
             ELSE IF ~mul.ok THEN ParseErr(ovf)
             ELSE LET x == ToDigit(c)
                      r == AddI32(mul.val, IF is_positive THEN x ELSE -x, TRUE)
                  IN  IF ~r.ok THEN ParseErr(ovf)
                      ELSE ParseDigits(Tail(digits), r.val, is_positive)

\* the parse that takes the empty text for 0
Parse_EmptyIsZero(src) ==
    IF src = <<>> THEN ParseOk(0)
    ELSE IF Head(src) \in {"+", "-"} /\ Len(src) = 1 THEN ParseErr("InvalidDigit")
    ELSE IF Head(src) = "+" THEN ParseDigits(Tail(src), 0, TRUE)
    ELSE IF Head(src) = "-" THEN ParseDigits(Tail(src), 0, FALSE)
    ELSE ParseDigits(src, 0, TRUE)

\* i32::from_str
Parse(src) ==
    IF src = <<>> THEN ParseErr("Empty")
    ELSE IF Head(src) \in {"+", "-"} /\ Len(src) = 1 THEN ParseErr("InvalidDigit")
    ELSE IF Head(src) = "+" THEN ParseDigits(Tail(src), 0, TRUE)
    ELSE IF Head(src) = "-" THEN ParseDigits(Tail(src), 0, FALSE)
    ELSE ParseDigits(src, 0, TRUE)

(***************************************************************************)
(* calculate                                                               *)
(***************************************************************************)
\* the filter written as "not odd": e % 2 != 1, which keeps the negative odd
\* integers, whose remainder is -1
IsEven_NotOne(e) == RustRem(e, 2) # 1

\* the closure of the filter: |e| e % 2 == 0
IsEven(e) == RustRem(e, 2) = 0

\* the fold over the half-open range e..t, which leaves t out
RECURSIVE FilterSum_Exclusive(_, _, _, _)
FilterSum_Exclusive(e, t, acc, checks) ==
    IF e >= t THEN Val(acc)
    ELSE LET a == IF RustRem(e, 2) = 0 THEN AddI32(acc, e, checks) ELSE Val(acc)
         IN  IF ~a.ok THEN a
             ELSE FilterSum_Exclusive(e + 1, t, a.val, checks)

\* the fold that yields the start of the range before it tests for the end
RECURSIVE FilterSum_StartFirst(_, _, _, _)
FilterSum_StartFirst(e, t, acc, checks) ==
    LET a == IF RustRem(e, 2) = 0 THEN AddI32(acc, e, checks) ELSE Val(acc)
    IN  IF ~a.ok THEN a
        ELSE IF e >= t THEN a
        ELSE FilterSum_StartFirst(e + 1, t, a.val, checks)

\* the fold of `sum` over the filtered inclusive range from e to t; the range
\* is exhausted after yielding t, without computing t + 1
RECURSIVE FilterSum(_, _, _, _)
FilterSum(e, t, acc, checks) ==
    IF e > t THEN Val(acc)
    ELSE LET a == IF IsEven(e) THEN AddI32(acc, e, checks) ELSE Val(acc)
         IN  IF ~a.ok THEN a
             ELSE IF e = t THEN a
             ELSE FilterSum(e + 1, t, a.val, checks)

\* the range taken without its first integer
calculate_SkipFirst(b, t, checks) ==
    IF b = I32_MAX THEN Val(0) ELSE FilterSum(b + 1, t, 0, checks)

\* fn calculate(botton: i32, top: i32) -> i32
calculate(b, t, checks) == FilterSum(b, t, 0, checks)

(***************************************************************************)
(* The text main prints                                                    *)
(***************************************************************************)
SepWidth == 33

\* "_________________________________"
Separator == [k \in 1..SepWidth |-> "_"]

\* String::from("Ibrahim")
owner1 == <<"I", "b", "r", "a", "h", "i", "m">>

\* "Enter a num"
PromptText == <<"E", "n", "t", "e", "r", " ", "a", " ", "n", "u", "m">>

\* vec![1, 3, 5, 7, 78, 54]
vector == <<1, 3, 5, 7, 78, 54>>

\* let closure = |x: i32| x + 2
closure(x, checks) == AddI32(x, 2, checks)

\* "{} x {} = {}"
TableLine(n, m, p) ==
    Fmt(n) \o <<" ", "x", " ">> \o Fmt(m) \o <<" ", "=", " ">> \o Fmt(p)

TableRows == 10
height == 5
CountTo == 1000

(***************************************************************************)
(* What standard input can hold                                            *)
(***************************************************************************)
\* runs of one whitespace character, up to MaxPad long
Pads == {[k \in 1..n |-> c] : n \in 0..MaxPad, c \in {" ", "\t"}}

\* read_line stops after the newline, or at end of stream without one
Eols == {<<>>, <<"\n">>, <<"\r", "\n">>}

BodyChars == {"-", "+", "5", "a", " "}

\* every text over BodyChars up to MaxBodyLen characters
ShortBodies == UNION {[1..n -> BodyChars] : n \in 0..MaxBodyLen}

\* texts at and around the limits of i32, and the texts the documentation names
LongBodies ==
    { <<"a", "b", "c">>, <<"-", "3">>, <<"0", "0", "7">>, <<"-", "0">>,
      <<"1", "2", ".", "5">>, <<"1", " ", "2">>,
      Fmt(I32_MAX \div 10), Fmt((I32_MAX \div 10) + 1), Fmt(I32_MIN \div 10),
      Fmt(I32_MAX \div 2), Fmt((I32_MAX \div 2) + 1),
      Fmt(I32_MAX), Fmt(I32_MIN), <<"+">> \o Fmt(I32_MAX),
      <<"2", "1", "4", "7", "4", "8", "3", "6", "4", "8">>,
      <<"-", "2", "1", "4", "7", "4", "8", "3", "6", "4", "9">>,
      <<"9", "9", "9", "9", "9", "9", "9", "9", "9", "9", "9">> }

StdinLines ==
    {l \o b \o r \o e : l \in Pads, b \in ShortBodies \cup LongBodies,
                        r \in Pads, e \in Eols}

(***************************************************************************)
(* Statements                                                              *)
(***************************************************************************)
\* println!: the line is completed and written
Println(text) == /\ out' = Append(out, cur \o text)
                 /\ cur' = <<>>

\* a panic: the diagnostic goes to standard error, the process aborts with
\* nothing more written to standard output
Panic(msg) == /\ status' = "panicked"
              /\ panic_msg' = msg
              /\ UNCHANGED <<pc, out, cur, num, i, input, botton, top, calc>>

\* a separator line between two demonstrations
Sep(from, to) == /\ status = "running" /\ pc = from
                 /\ Println(Separator)
                 /\ pc' = to
                 /\ UNCHANGED <<status, panic_msg>>

Init == /\ pc = "L4"
        /\ out = <<>>
        /\ cur = <<>>
        /\ num = 1
        /\ i = 0
        /\ input = <<>>
        /\ status = "running"
        /\ panic_msg = "none"
        /\ overflow_checks \in BOOLEAN
        /\ botton = 0
        /\ top = 0
        /\ calc = 0

\* lines 4-7: for num in 1..=10
ForLoop == /\ status = "running" /\ pc = "L4"
           /\ Println(Fmt(num))
           /\ IF num = 10 THEN pc' = "L8" /\ num' = num
                          ELSE pc' = "L4" /\ num' = num + 1
           /\ UNCHANGED <<i, input, status, panic_msg, overflow_checks, botton, top, calc>>

\* lines 8-9
Sep8 == /\ Sep("L8", "L10")
        /\ i' = 10
        /\ UNCHANGED <<num, input, overflow_checks, botton, top, calc>>

\* lines 10-13: while i >= 1
WhileLoop == /\ status = "running" /\ pc = "L10"
             /\ IF i >= 1
                THEN /\ Println(Fmt(i))
                     /\ i' = i - 1
                     /\ pc' = "L10"
                ELSE /\ pc' = "L14"
                     /\ UNCHANGED <<out, cur, i>>
             /\ UNCHANGED <<num, input, status, panic_msg, overflow_checks, botton, top, calc>>

\* lines 14-15
Sep14 == /\ Sep("L14", "L16")
         /\ num' = 1
         /\ UNCHANGED <<i, input, overflow_checks, botton, top, calc>>

\* the body whose continue branch does not increment num
LoopBody_NoIncrement ==
    /\ status = "running" /\ pc = "L16"
    /\ IF num = 5
       THEN /\ pc' = "L16"
            /\ UNCHANGED <<out, cur, num>>
       ELSE IF num = 8
       THEN /\ pc' = "L28"
            /\ UNCHANGED <<out, cur, num>>
       ELSE /\ Println(Fmt(num))
            /\ num' = num + 1
            /\ pc' = "L16"
    /\ UNCHANGED <<i, input, status, panic_msg, overflow_checks, botton, top, calc>>

\* lines 16-26: one pass through the body of loop { ... }
LoopBody == /\ status = "running" /\ pc = "L16"
            /\ IF num = 5
               THEN /\ num' = num + 1
                    /\ pc' = "L16"
                    /\ UNCHANGED <<out, cur>>
               ELSE IF num = 8
               THEN /\ pc' = "L28"
                    /\ UNCHANGED <<out, cur, num>>
               ELSE /\ Println(Fmt(num))
                    /\ num' = num + 1
                    /\ pc' = "L16"
            /\ UNCHANGED <<i, input, status, panic_msg, overflow_checks, botton, top, calc>>

Sep28 == /\ Sep("L28", "L29")
         /\ UNCHANGED <<num, i, input, overflow_checks, botton, top, calc>>

\* lines 29-33: owner1.len(), then the borrowed text
Borrow == /\ status = "running" /\ pc = "L29"
          /\ Println(Fmt(Len(owner1)) \o <<" ">> \o owner1)
          /\ pc' = "L35"
          /\ UNCHANGED <<num, i, input, status, panic_msg, overflow_checks, botton, top, calc>>

Sep35 == /\ Sep("L35", "L37")
         /\ UNCHANGED <<num, i, input, overflow_checks, botton, top, calc>>

\* lines 37-38: closure(5)
Closure == /\ status = "running" /\ pc = "L37"
           /\ LET r == closure(5, overflow_checks)
              IN  IF r.ok
                  THEN /\ Println(Fmt(r.val))
                       /\ pc' = "L40"
                       /\ UNCHANGED <<status, panic_msg>>
                  ELSE Panic("attempt to add with overflow")
           /\ UNCHANGED <<num, i, input, overflow_checks, botton, top, calc>>

\* lines 40-42
Sep40 == /\ Sep("L40", "L43")
         /\ i' = 1
         /\ UNCHANGED <<num, input, overflow_checks, botton, top, calc>>

\* lines 43-45: for vec in vector (i is the position of the iterator)
VecLoop == /\ status = "running" /\ pc = "L43"
           /\ IF i <= Len(vector)
              THEN /\ Println(Fmt(vector[i]))
                   /\ i' = i + 1
                   /\ pc' = "L43"
              ELSE /\ pc' = "L48"
                   /\ UNCHANGED <<out, cur, i>>
           /\ UNCHANGED <<num, input, status, panic_msg, overflow_checks, botton, top, calc>>

\* lines 48-49
Sep48 == /\ Sep("L48", "L50")
         /\ input' = <<>>
         /\ UNCHANGED <<num, i, overflow_checks, botton, top, calc>>

\* the prompt written by print!, which leaves it in the unfinished line
Prompt_NoNewline ==
    /\ status = "running" /\ pc = "L50"
    /\ cur' = cur \o PromptText
    /\ pc' = "L52"
    /\ UNCHANGED <<out, num, i, input, status, panic_msg, overflow_checks, botton, top, calc>>

\* line 50
Prompt == /\ status = "running" /\ pc = "L50"
          /\ Println(PromptText)
          /\ pc' = "L52"
          /\ UNCHANGED <<num, i, input, status, panic_msg, overflow_checks, botton, top, calc>>

\* line 52: read_line appends the line to input; bytes that are no UTF-8
\* make it an Err, which expect turns into a panic
ReadLine == /\ status = "running" /\ pc = "L52"
            /\ \/ \E line \in StdinLines :
                    /\ input' = input \o line
                    /\ pc' = "L53"
                    /\ UNCHANGED <<out, cur, num, i, status, panic_msg, botton, top, calc>>
               \/ Panic("failed to read line")
            /\ UNCHANGED overflow_checks

\* line 53: input.trim().parse().expect("enter valid num")
ParseNum == /\ status = "running" /\ pc = "L53"
            /\ LET r == Parse(Trim(input))
               IN  IF r.ok
                   THEN /\ num' = r.val
                        /\ i' = 1
                        /\ pc' = "L55"
                        /\ UNCHANGED <<out, cur, input, status, panic_msg, botton, top, calc>>
                   ELSE Panic("enter valid num")
            /\ UNCHANGED overflow_checks

\* lines 55-57: for i in 1..=10, the product computed before the line is written
TableLoop == /\ status = "running" /\ pc = "L55"
             /\ LET p == MulI32(num, i, overflow_checks)
                IN  IF p.ok
                    THEN /\ Println(TableLine(num, i, p.val))
                         /\ IF i = TableRows THEN pc' = "L60" /\ i' = i
                                             ELSE pc' = "L55" /\ i' = i + 1
                         /\ UNCHANGED <<num, input, status, panic_msg, botton, top, calc>>
                    ELSE Panic("attempt to multiply with overflow")
             /\ UNCHANGED overflow_checks

\* lines 60-61
Sep60 == /\ Sep("L60", "L62")
         /\ i' = 1
         /\ UNCHANGED <<num, input, overflow_checks, botton, top, calc>>

\* lines 62-67: row i of the pattern, i stars by print! and the println!
StarRow == /\ status = "running" /\ pc = "L62"
           /\ Println([k \in 1..i |-> "*"])
           /\ IF i = height THEN pc' = "L70" /\ i' = i
                            ELSE pc' = "L62" /\ i' = i + 1
           /\ UNCHANGED <<num, input, status, panic_msg, overflow_checks, botton, top, calc>>

Sep70 == /\ Sep("L70", "L72")
         /\ UNCHANGED <<num, i, input, overflow_checks, botton, top, calc>>

\* lines 72-74: for i in 1..=1000, the whole loop
CountLoop == /\ status = "running" /\ pc = "L72"
             /\ out' = out \o [k \in 1..CountTo |-> Fmt(k)]
             /\ pc' = "L77"
             /\ UNCHANGED <<cur, num, i, input, status, panic_msg, overflow_checks, botton, top, calc>>

\* line 77
Sep77 == /\ Sep("L77", "L78")
         /\ UNCHANGED <<num, i, input, overflow_checks, botton, top, calc>>

\* line 78: println!("")
EmptyLine == /\ status = "running" /\ pc = "L78"
             /\ Println(<<>>)
             /\ pc' = "L80"
             /\ UNCHANGED <<num, i, input, status, panic_msg, overflow_checks, botton, top, calc>>

\* line 80: the call calculate(1, 5) binds the parameters
CallCalculate == /\ status = "running" /\ pc = "L80"
                 /\ botton' = 1
                 /\ top' = 5
                 /\ pc' = "L85"
                 /\ UNCHANGED <<out, cur, num, i, input, status, panic_msg, overflow_checks, calc>>

\* lines 84-86: the body of calculate, its value returned into calc
Calculate == /\ status = "running" /\ pc = "L85"
             /\ LET r == calculate(botton, top, overflow_checks)
                IN  IF r.ok
                    THEN /\ calc' = r.val
                         /\ pc' = "L81"
                         /\ UNCHANGED <<out, cur, num, i, input, status, panic_msg, botton, top>>
                    ELSE /\ Panic("attempt to add with overflow")
                         /\ UNCHANGED calc
             /\ UNCHANGED overflow_checks

\* line 81
PrintCalc == /\ status = "running" /\ pc = "L81"
             /\ Println(Fmt(calc))
             /\ pc' = "L82"
             /\ UNCHANGED <<num, i, input, status, panic_msg, overflow_checks, botton, top, calc>>

\* line 82: main returns, the process exits with code 0
Exit == /\ status = "running" /\ pc = "L82"
        /\ status' = "exited"
        /\ UNCHANGED <<pc, out, cur, num, i, input, panic_msg, overflow_checks, botton, top, calc>>

Next == \/ ForLoop \/ Sep8 \/ WhileLoop \/ Sep14 \/ LoopBody \/ Sep28
        \/ Borrow \/ Sep35 \/ Closure \/ Sep40 \/ VecLoop \/ Sep48 \/ Prompt
        \/ ReadLine \/ ParseNum \/ TableLoop \/ Sep60 \/ StarRow \/ Sep70
        \/ CountLoop \/ Sep77 \/ EmptyLine \/ CallCalculate \/ Calculate
        \/ PrintCalc \/ Exit

Spec == Init /\ [][Next]_vars

(***************************************************************************)
(* calculate on its own: the arguments are drawn from the integers within  *)
(* ArgSpan of 0, of i32::MAX and of i32::MIN.  A non-empty range stays     *)
(* within one of the three groups.                                         *)
(***************************************************************************)
ArgGroups == { (-ArgSpan)..ArgSpan,
               {I32_MAX - k : k \in 0..ArgSpan},
               {I32_MIN + k : k \in 0..ArgSpan} }

InitCalc == /\ pc = "L85"
            /\ out = <<>>
            /\ cur = <<>>
            /\ num = 0
            /\ i = 0
            /\ input = <<>>
            /\ status = "running"
            /\ panic_msg = "none"
            /\ overflow_checks \in BOOLEAN
            /\ botton \in UNION ArgGroups
            /\ top \in UNION ArgGroups
            /\ botton > top \/ \E g \in ArgGroups : botton \in g /\ top \in g
            /\ calc = 0

NextCalc == Calculate

SpecCalc == InitCalc /\ [][NextCalc]_vars

(***************************************************************************)
(* Properties of calculate, stated for SpecCalc                            *)
(***************************************************************************)
\* calculate has been called: it returned into calc, or it panicked
Called == pc = "L81" \/ status = "panicked"

Returned == status = "running" /\ pc = "L81"

\* the integers b, b+1, ..., t
Range(b, t) == IF b > t THEN {} ELSE {b + k : k \in 0..(t - b)}

\* the even integers of [b, t], evenness by the mathematical modulus
EvensIn(b, t) == {x \in Range(b, t) : x % 2 = 0}

\* the arithmetic sum of a set of integers, and whether it lies in i32; the
\* largest element is added last, so for a set of integers of one sign the
\* sum fits exactly when no addition leaves the i32 range
RECURSIVE SumOf(_)
SumOf(S) ==
    IF S = {} THEN [fits |-> TRUE, val |-> 0]
    ELSE LET x == CHOOSE x \in S : \A y \in S : x >= y
             rest == SumOf(S \ {x})
         IN  IF \/ ~rest.fits
                \/ x > 0 /\ rest.val > I32_MAX - x
                \/ x < 0 /\ rest.val < I32_MIN - x
             THEN [fits |-> FALSE, val |-> 0]
             ELSE [fits |-> TRUE, val |-> rest.val + x]

\* C1: for botton <= top whose sum of evens does not overflow i32,
\* calculate(botton, top) returns exactly the arithmetic sum of every even
\* integer of [botton, top], endpoints and negative evens included; in
\* particular calculate(1, 5) = 6.
C1_SumOfEvens ==
    /\ (Called /\ botton <= top /\ SumOf(EvensIn(botton, top)).fits)
          => (Returned /\ calc = SumOf(EvensIn(botton, top)).val)
    /\ (Called /\ botton = 1 /\ top = 5) => (Returned /\ calc = 6)

C1_Witness == Returned /\ botton = -4 /\ top = 2 /\ calc = -4

\* C2: for botton > top, calculate(botton, top) returns 0 without error,
\* whatever the parity or sign of the bounds.
C2_EmptyRangeIsZero == (Called /\ botton > top) => (Returned /\ calc = 0)

C2_Witness == Returned /\ botton = 4 /\ top = -2 /\ calc = 0

\* C7: calculate(botton, top) returns 0 whenever [botton, top] holds no even
\* integer: the range is empty, or botton = top and that value is odd.
C7_NoEvenIsZero ==
    (Called /\ (botton > top \/ (botton = top /\ botton % 2 = 1)))
        => (Returned /\ calc = 0)

C7_Witness == Returned /\ botton = -3 /\ top = -3 /\ calc = 0

\* the closed form of the sum of the even integers of [b, t]: the count of
\* evens times the average of the first and the last even, 0 when none
ClosedForm(b, t) ==
    LET first == IF b % 2 = 0 THEN b ELSE b + 1
        last == IF t % 2 = 0 THEN t ELSE t - 1
    IN  IF first > last THEN 0
        ELSE (((last - first) \div 2) + 1) * ((first + last) \div 2)

\* C8: for bounds within a safe integer range, the enumeration of
\* calculate(botton, top) equals the closed form of the sum of the even
\* integers of [botton, top].
C8_EqualsClosedForm ==
    (Called /\ botton \in -30000..30000 /\ top \in -30000..30000)
        => (Returned /\ calc = ClosedForm(botton, top))

C8_Witness == Returned /\ botton = -3 /\ top = 5 /\ calc = 4

(***************************************************************************)
(* Properties of main, stated for Spec and FairSpec                        *)
(***************************************************************************)
\* the statements after the prompt of line 50
PastPrompt == {"L52", "L53", "L55", "L60", "L62", "L70", "L72", "L77", "L78",
               "L80", "L85", "L81", "L82"}

\* the statements after the parse of line 53
PastParse == PastPrompt \ {"L52", "L53"}

\* the input step failed: read_line or parse ended in the panic of expect
InputFailed == status = "panicked" /\ pc \in {"L52", "L53"}

\* line 53 has been executed, with success or not
ParseAttempted == pc \in PastParse \/ (pc = "L53" /\ status = "panicked")

\* the text of s between its first and its last character that is no whitespace
Core(s) ==
    LET black == {k \in 1..Len(s) : s[k] \notin {" ", "\t", "\n", "\r"}}
    IN  IF black = {} THEN <<>>
        ELSE SubSeq(s, CHOOSE k \in black : \A j \in black : k <= j,
                       CHOOSE k \in black : \A j \in black : k >= j)

\* a is at most b, for two digit texts of one length
DigitsLeq(a, b) ==
    \/ a = b
    \/ \E k \in 1..Len(a) : /\ \A j \in 1..(k - 1) : a[j] = b[j]
                            /\ ToDigit(a[k]) < ToDigit(b[k])

\* digit text d without its leading zeros (one digit is kept)
RECURSIVE StripZeros(_)
StripZeros(d) == IF Len(d) > 1 /\ Head(d) = "0" THEN StripZeros(Tail(d)) ELSE d

\* s is a base-10 signed 32-bit integer: an optional sign, then one or more
\* digits, the value within -2147483648 .. 2147483647
IsI32Text(s) ==
    /\ s # <<>>
    /\ LET signed == s[1] \in {"+", "-"}
           digits == IF signed THEN Tail(s) ELSE s
           limit == IF s[1] = "-"
                    THEN <<"2", "1", "4", "7", "4", "8", "3", "6", "4", "8">>
                    ELSE <<"2", "1", "4", "7", "4", "8", "3", "6", "4", "7">>
       IN  /\ digits # <<>>
           /\ \A k \in 1..Len(digits) :
                  digits[k] \in {"0", "1", "2", "3", "4", "5", "6", "7", "8", "9"}
           /\ \/ Len(StripZeros(digits)) < 10
              \/ Len(StripZeros(digits)) = 10 /\ DigitsLeq(StripZeros(digits), limit)

\* the text of the value of an integer text: no "+", no leading zero, no "-0"
Canonical(s) ==
    LET signed == s[1] \in {"+", "-"}
        d == StripZeros(IF signed THEN Tail(s) ELSE s)
    IN  IF s[1] = "-" /\ d # <<"0">> THEN <<"-">> \o d ELSE d

\* the lines written after the prompt and before the separator of line 60
TableLines ==
    LET p == CHOOSE k \in 1..Len(out) : out[k] = PromptText
        seps == {k \in (p + 1)..Len(out) : out[k] = Separator}
        q == IF seps = {} THEN Len(out)
             ELSE (CHOOSE k \in seps : \A j \in seps : k <= j) - 1
    IN  SubSeq(out, p + 1, q)

\* the mathematical product n * m is an i32, for a multiplier m >= 1
ProductFits(n, m) == n <= I32_MAX \div m /\ n >= RustDiv(I32_MIN, m)

\* the rows of the table written so far are the rows 1, 2, ... of num, each
\* with the mathematical product
RowsAreProducts ==
    \A m \in 1..Len(TableLines) :
        ProductFits(num, m) /\ TableLines[m] = TableLine(num, m, num * m)

\* the number of rows the table holds once the loop of line 55 is at row i
RowsDue == IF pc = "L55" THEN i - 1 ELSE TableRows

\* C3: for every input line that parses to an i32 num, the table step writes
\* exactly 10 lines, for m = 1, ..., 10 in increasing order, the m-th being
\* "<num> x <m> = <num*m>" with the mathematical product.
C3_TableOfProducts ==
    pc \in PastParse =>
        /\ status # "panicked"
        /\ Len(TableLines) = RowsDue
        /\ RowsAreProducts

\* the table is right for every num whose products with 1..10 are i32
TableWithoutOverflow ==
    (pc \in PastParse /\ ProductFits(num, TableRows))
        => (status # "panicked" /\ Len(TableLines) = RowsDue /\ RowsAreProducts)

\* C4: if the trimmed input line is no base-10 i32 (non-numeric text, empty
\* line, end of stream, out-of-range value), or the stream is unreadable, the
\* program terminates abnormally and no table line is written.
C4_InvalidInputAborts ==
    /\ (ParseAttempted /\ ~IsI32Text(Core(input)))
           => (InputFailed /\ TableLines = <<>> /\ out[Len(out)] = PromptText)
    /\ (status = "panicked" /\ pc = "L52")
           => (TableLines = <<>> /\ out[Len(out)] = PromptText)

C4_Witness ==
    /\ InputFailed /\ panic_msg = "enter valid num"
    /\ input = <<"a", "b", "c", "\n">>
    /\ TableLines = <<>>

\* C5: the program terminates normally for every input line whose trimmed
\* content is an i32, and abnormally only when the input is no valid integer;
\* no valid integer, the values near the i32 limits included, makes it abort.
C5_AbortOnlyOnInvalidInput ==
    /\ (ParseAttempted /\ IsI32Text(Core(input))) => status # "panicked"
    /\ status = "panicked" => InputFailed

\* parsing ignores the surrounding whitespace: a valid integer text with
\* whitespace around it parses to its value
ParseIgnoresWhitespace ==
    (ParseAttempted /\ IsI32Text(Core(input)))
        => (~InputFailed /\ Fmt(num) = Canonical(Core(input)))

\* C6: for every input line made of a valid signed decimal integer n with
\* whitespace before and/or after it, parsing succeeds with value n and the
\* table is printed for n.
C6_PaddedInputGivesTable ==
    (ParseAttempted /\ IsI32Text(Core(input)) /\ Core(input) # input)
        => /\ ~InputFailed
           /\ Fmt(num) = Canonical(Core(input))
           /\ status # "panicked"
           /\ Len(TableLines) = RowsDue
           /\ RowsAreProducts

\* the standard output of a run up to and with the prompt
ExpectedPrefix ==
    << <<"1">>, <<"2">>, <<"3">>, <<"4">>, <<"5">>, <<"6">>, <<"7">>, <<"8">>,
       <<"9">>, <<"1", "0">>,
       Separator,
       <<"1", "0">>, <<"9">>, <<"8">>, <<"7">>, <<"6">>, <<"5">>, <<"4">>,
       <<"3">>, <<"2">>, <<"1">>,
       Separator,
       <<"1">>, <<"2">>, <<"3">>, <<"4">>, <<"6">>, <<"7">>,
       Separator,
       <<"7", " ", "I", "b", "r", "a", "h", "i", "m">>,
       Separator,
       <<"7">>,
       Separator,
       <<"1">>, <<"3">>, <<"5">>, <<"7">>, <<"7", "8">>, <<"5", "4">>,
       Separator,
       <<"E", "n", "t", "e", "r", " ", "a", " ", "n", "u", "m">> >>

\* C9: once the input step fails no further line is written to standard
\* output (no table, no star pattern, no counting line, no calculate result),
\* and what was written before, the prompt included, is the prefix a
\* successful run writes.
C9_NoOutputAfterFailure ==
    /\ InputFailed => (out = ExpectedPrefix /\ cur = <<>>)
    /\ pc \in PastPrompt =>
           /\ Len(out) >= Len(ExpectedPrefix)
           /\ SubSeq(out, 1, Len(ExpectedPrefix)) = ExpectedPrefix

C9_Witness ==
    /\ InputFailed /\ panic_msg = "enter valid num"
    /\ Trim(input) = <<>>
    /\ out = ExpectedPrefix

\* the lines written after the last separator
LoopLines ==
    LET seps == {k \in 1..Len(out) : out[k] = Separator}
    IN  SubSeq(out, (CHOOSE k \in seps : \A j \in seps : k >= j) + 1, Len(out))

\* the loop of line 16 has been left by its break, having written 1 2 3 4 6 7
LoopExited ==
    /\ status = "running" /\ pc = "L28" /\ num = 8
    /\ Cardinality({k \in 1..Len(out) : out[k] = Separator}) = 2
    /\ LoopLines = << <<"1">>, <<"2">>, <<"3">>, <<"4">>, <<"6">>, <<"7">> >>

\* the demonstrations of lines 4-50, which take no input
Demonstrations == \/ ForLoop \/ Sep8 \/ WhileLoop \/ Sep14 \/ LoopBody \/ Sep28
                  \/ Borrow \/ Sep35 \/ Closure \/ Sep40 \/ VecLoop \/ Sep48
                  \/ Prompt

\* a single thread runs main: before the read of line 52, which may wait for
\* standard input, a statement that can run does run
FairSpec == Spec /\ WF_vars(Demonstrations)

\* C10: the loop/continue/break demonstration that starts at num = 1 always
\* terminates and has then written exactly 1, 2, 3, 4, 6, 7 in that order: 5
\* is skipped by the continue branch, which increments num, and the loop is
\* left at num = 8 without writing 8.
C10_LoopTerminates == <>LoopExited

C10_Witness == LoopExited

====
